---- MODULE Spec2Model ----
(***************************************************************************)
(* The closest-location pipeline of mycity/utilities/Finder/Finder.py and  *)
(* the polling-location handler of mycity/intents/voting_intent.py.        *)
(*                                                                         *)
(* A record (a CSV row, a feature) and a DrivingInfo are functions from    *)
(* field names to values.  A speech string is a sequence of tokens; a      *)
(* token of a template is either literal text or a placeholder "{Field}".  *)
(* A Python call either returns a value or raises: Return(v) / Raise(e).   *)
(***************************************************************************)
EXTENDS Integers, Sequences, FiniteSets, TLC

\* ------------------------------------------------------------------ bounds
MaxRecords == 2
MaxDist == 1

\* --------------------------------------------------------------- constants
Finder_CITY == "Boston"
Finder_STATE == "MA"
ERROR_MESSAGE == <<"Uh oh. Something went wrong!">>
AddressKey == "Address"
DRIVING_DISTANCE_VALUE_KEY == "Driving distance"
DRIVING_TIME_TEXT_KEY == "Driving time"
CURRENT_ADDRESS_KEY == "currentAddress"
CARD_TITLE == "Voting Intent"
BOSTON_SUFFIX == ", Boston, MA"
LOCATION_SPEECH == <<"Your polling location is ", "{0}", " at ", "{1}">>

\* Python's None, as a mapping no record or DrivingInfo equals.
NoneVal == [none |-> TRUE]

Return(v) == [exc |-> "none", val |-> v]
Raise(e) == [exc |-> e]

\* ------------------------------------------------------------ input domains
\* Records a record source can deliver: two distinct addresses, a second
\* record at an address already used (carrying a field that collides with a
\* DrivingInfo field), and a malformed record without the address key.
RecordPool ==
  { (AddressKey :> "5 Main St") @@ ("Name" :> "Library"),
    (AddressKey :> "20 Main St") @@ ("Name" :> "School"),
    (AddressKey :> "5 Main St") @@ ("Name" :> "Annex")
       @@ (DRIVING_TIME_TEXT_KEY :> "stale"),
    ("Name" :> "Depot") }

SeqsUpTo(S, n) == UNION { [1..k -> S] : k \in 0..n }

\* Speech templates a caller can construct a Finder with.
Templates ==
  { <<"{Name}", " is at ", "{Address}">>,
    <<"{Address}", " is ", "{Driving distance}", " meters, ", "{Driving time}">>,
    <<"Call ", "{Phone}">> }

\* The field each placeholder token names.
PlaceholderField ==
  ("{Name}" :> "Name") @@ ("{Address}" :> AddressKey)
    @@ ("{Driving distance}" :> DRIVING_DISTANCE_VALUE_KEY)
    @@ ("{Driving time}" :> DRIVING_TIME_TEXT_KEY) @@ ("{Phone}" :> "Phone")

\* Field-preparation functions a caller can supply: one that edits the record
\* it is given, one that returns a new mapping, one that does nothing, one
\* that raises.
Formatters == {"inplace", "fresh", "noop", "raises"}

\* The address as a distance service may echo it (trailing whitespace).
Padded(a) ==
  CASE a = "5 Main St" -> "5 Main St "
    [] a = "20 Main St" -> "20 Main St "
    [] OTHER -> a

TimeText(d) == IF d = 0 THEN "1 min" ELSE "5 mins"

\* What a field-preparation function makes of a field value.
PrepValue(v) ==
  CASE v = "Library" -> "the Library"
    [] v = "School" -> "the School"
    [] v = "Annex" -> "the Annex"
    [] OTHER -> v

\* ------------------------------------------------------------ pure functions
\* str.format of one value: numbers are printed, strings pass through.
Str(field, v) == IF field = DRIVING_DISTANCE_VALUE_KEY THEN ToString(v) ELSE v

IsPlaceholder(tok) == tok \in DOMAIN PlaceholderField

\* template.format(**format_keys): TypeError when format_keys is no mapping,
\* KeyError when a placeholder names a field format_keys lacks, else the
\* template with every placeholder replaced by the field's value.
Format(template, format_keys) ==
  IF format_keys = NoneVal THEN Raise("TypeError")
  ELSE IF \E i \in 1..Len(template) :
            /\ IsPlaceholder(template[i])
            /\ PlaceholderField[template[i]] \notin DOMAIN format_keys
       THEN Raise("KeyError")
       ELSE Return([i \in 1..Len(template) |->
                      IF IsPlaceholder(template[i])
                      THEN Str(PlaceholderField[template[i]],
                               format_keys[PlaceholderField[template[i]]])
                      ELSE template[i]])

\* Finder.set_output_speech: the try block formats; the except KeyError block
\* assigns the bare name ERROR_MESSAGE, which is bound neither locally nor at
\* module level (it is an attribute of the class), so the handler itself
\* raises NameError and output_speech keeps its value.
set_output_speech(output_speech_, format_keys) ==
  LET r == Format(output_speech_, format_keys)
  IN  IF r.exc = "none" THEN [exc |-> "none", output_speech |-> r.val]
      ELSE IF r.exc = "KeyError"
           THEN [exc |-> "NameError", output_speech |-> output_speech_]
           ELSE [exc |-> r.exc, output_speech |-> output_speech_]

\* get_all_destinations with a record that lacks the address key skipped
\* instead of raising.
HasAddress(record) == AddressKey \in DOMAIN record

get_all_destinations_skipping(records_) ==
  LET kept == SelectSeq(records_, HasAddress)
  IN  Return([i \in 1..Len(kept) |-> kept[i][AddressKey]])

\* Finder.get_all_destinations: the address field of every record, in order;
\* KeyError when a record lacks the address key.
get_all_destinations(records_) ==
  IF \E i \in 1..Len(records_) : AddressKey \notin DOMAIN records_[i]
  THEN Raise("KeyError")
  ELSE Return([i \in 1..Len(records_) |-> records_[i][AddressKey]])

\* The scan of Python's min(iterable, key=...): the first element is the
\* candidate, a later element replaces it only when its key is strictly less.
RECURSIVE MinScan(_, _, _)
MinScan(dd, i, best) ==
  IF i > Len(dd) THEN best
  ELSE MinScan(dd, i + 1,
               IF dd[i][DRIVING_DISTANCE_VALUE_KEY]
                    < dd[best][DRIVING_DISTANCE_VALUE_KEY]
               THEN i ELSE best)

\* The scan with the comparison relaxed to <=: the last minimum wins.
RECURSIVE MinScanLast(_, _, _)
MinScanLast(dd, i, best) ==
  IF i > Len(dd) THEN best
  ELSE MinScanLast(dd, i + 1,
                   IF dd[i][DRIVING_DISTANCE_VALUE_KEY]
                        <= dd[best][DRIVING_DISTANCE_VALUE_KEY]
                   THEN i ELSE best)

get_closest_destination_last_min(destination_dictionaries) ==
  IF Len(destination_dictionaries) = 0 THEN Raise("ValueError")
  ELSE Return(destination_dictionaries[
                MinScanLast(destination_dictionaries, 2, 1)])

\* Finder.get_closest_destination: min() of an empty sequence raises
\* ValueError.
get_closest_destination(destination_dictionaries) ==
  IF Len(destination_dictionaries) = 0 THEN Raise("ValueError")
  ELSE Return(destination_dictionaries[MinScan(destination_dictionaries, 2, 1)])

\* The merge with the override direction reversed: {**driving_info, **record}
Merge_record_wins(record, driving_info) ==
  [k \in DOMAIN record \cup DOMAIN driving_info |->
     IF k \in DOMAIN record THEN record[k] ELSE driving_info[k]]

\* {**record, **driving_info}
Merge(record, driving_info) ==
  [k \in DOMAIN record \cup DOMAIN driving_info |->
     IF k \in DOMAIN driving_info THEN driving_info[k] ELSE record[k]]

\* Finder.get_closest_record_with_driving_info: the loop returns at the first
\* record whose address equals driving_info's; record[address_key] raises
\* KeyError on a record without the key met before a match; falling off the
\* loop returns None.
RECURSIVE ScanRecords(_, _, _)
ScanRecords(driving_info, records_, i) ==
  IF i > Len(records_) THEN Return(NoneVal)
  ELSE IF AddressKey \notin DOMAIN driving_info
          \/ AddressKey \notin DOMAIN records_[i]
       THEN Raise("KeyError")
       ELSE IF driving_info[AddressKey] = records_[i][AddressKey]
            THEN Return(Merge(records_[i], driving_info))
            ELSE ScanRecords(driving_info, records_, i + 1)

\* The reconciliation with the address comparison dropped: the first record
\* is merged whatever its address.
get_closest_record_with_driving_info_unmatched(driving_info, records_) ==
  IF Len(records_) = 0 THEN Return(NoneVal)
  ELSE Return([k \in DOMAIN records_[1] \cup DOMAIN driving_info |->
                 IF k \in DOMAIN driving_info
                 THEN driving_info[k] ELSE records_[1][k]])

get_closest_record_with_driving_info(driving_info, records_) ==
  ScanRecords(driving_info, records_, 1)

\* csv_utils.add_city_and_state_to_records on well-formed records: every
\* record gains the fixed city and state fields.
add_city_and_state_to_records(records_) ==
  [i \in 1..Len(records_) |->
     [k \in DOMAIN records_[i] \cup {"City", "State"} |->
        IF k = "City" THEN Finder_CITY
        ELSE IF k = "State" THEN Finder_STATE ELSE records_[i][k]]]

\* The record as a field-preparation function leaves or returns it.
Prepared(record) ==
  [k \in DOMAIN record |-> IF k = "Name" THEN PrepValue(record[k]) ELSE record[k]]

\* -------------------------------------------------------------------- state
VARIABLES
  pc,               \* where the request stands: "idle", a source line, "returned", "raised"
  exception,        \* the exception that reached the caller, "none" if none
  steps,            \* the steps executed so far for this request, in order
  session,          \* mycity_request.session_attributes
  speech_template,  \* the output_speech argument of Finder.__init__
  prep_func,        \* the output_speech_prep_func argument of Finder.__init__
  output_speech,    \* self.output_speech
  field_formatter,  \* self.field_formatter
  origin_address,   \* self.origin_address
  records,          \* _start's records
  destinations,     \* _start's destinations
  driving_times,    \* _start's driving_times
  closest_dest,     \* _start's closest_dest
  closest_record,   \* _start's closest_record
  formatted_record, \* _start's formatted_record
  mycity_response,  \* get_polling_location's response object
  current_address,  \* get_polling_location's current_address, as its parts
  candidates,       \* geocoded address candidates
  top_candidate,
  ward_precinct,
  poll_location,
  location_speech,  \* get_polling_location's local output_speech
  result            \* the response get_polling_location returned, None if none

finder_vars ==
  <<output_speech, field_formatter, origin_address, records, destinations,
    driving_times, closest_dest, closest_record, formatted_record>>

voting_vars ==
  <<mycity_response, current_address, candidates, top_candidate,
    ward_precinct, poll_location, location_speech, result>>

Sessions == { (CURRENT_ADDRESS_KEY :> "10 Main St"), <<>> }

Unset == <<>>

FinderInit ==
  /\ output_speech = Unset
  /\ field_formatter = "unset"
  /\ origin_address = "unset"
  /\ records = Unset
  /\ destinations = Unset
  /\ driving_times = Unset
  /\ closest_dest = NoneVal
  /\ closest_record = NoneVal
  /\ formatted_record = NoneVal

\* A step whose exception is caught and the step tried again.
Raises_retried(step, e) ==
  /\ pc' = pc
  /\ exception' = exception
  /\ steps' = Append(steps, step)

\* A step that raises: the exception propagates out of the handler.
Raises(step, e) ==
  /\ pc' = "raised"
  /\ exception' = e
  /\ steps' = Append(steps, step)

\* A step that completes and hands over to the line `next`.
Goes(step, next) ==
  /\ pc' = next
  /\ exception' = exception
  /\ steps' = Append(steps, step)

\* ------------------------------------------------------------------ Finder
\* Finder.__init__: four attribute assignments, then the origin address is
\* pulled from the request by address_utils.build_origin_address, which
\* fails when the request lacks the session field.
__init__ ==
  /\ pc = "idle"
  /\ output_speech' = speech_template
  /\ field_formatter' = prep_func
  /\ IF CURRENT_ADDRESS_KEY \in DOMAIN session
     THEN /\ origin_address' = session[CURRENT_ADDRESS_KEY]
          /\ Goes("__init__", "constructed")
     ELSE /\ origin_address' = origin_address
          /\ Raises("__init__", "KeyError")
  /\ UNCHANGED <<session, speech_template, prep_func, voting_vars,
                 records, destinations,
                 driving_times, closest_dest, closest_record, formatted_record>>

\* Finder.start: the base class's body is `pass`.
start ==
  /\ pc = "constructed"
  /\ Goes("start", "returned")
  /\ UNCHANGED <<session, speech_template, prep_func, voting_vars,
                 finder_vars>>

\* A subclass's start: it retrieves its location records and calls _start.
start_override ==
  /\ pc = "constructed"
  /\ \/ \E recs \in SeqsUpTo(RecordPool, MaxRecords) :
          /\ records' = recs
          /\ Goes("fetch", "L68")
     \/ /\ records' = records
        /\ Raises("fetch", "RequestException")
  /\ UNCHANGED <<session, speech_template, prep_func, voting_vars,
                 output_speech,
                 field_formatter, origin_address, destinations, driving_times,
                 closest_dest, closest_record, formatted_record>>

\* _start line 68: records = self.add_city_and_state_to_records(records)
_start_records ==
  /\ pc = "L68"
  /\ \/ /\ records' = add_city_and_state_to_records(records)
        /\ Goes("augment", "L69")
     \/ /\ \E i \in 1..Len(records) : AddressKey \notin DOMAIN records[i]
        /\ records' = records
        /\ Raises("augment", "KeyError")
  /\ UNCHANGED <<session, speech_template, prep_func, voting_vars,
                 output_speech,
                 field_formatter, origin_address, destinations, driving_times,
                 closest_dest, closest_record, formatted_record>>

\* _start line 69: destinations = self.get_all_destinations(records)
_start_destinations ==
  /\ pc = "L69"
  /\ LET r == get_all_destinations(records)
     IN  IF r.exc = "none"
         THEN /\ destinations' = r.val
              /\ Goes("destinations", "L70")
         ELSE /\ destinations' = destinations
              /\ Raises("destinations", r.exc)
  /\ UNCHANGED <<session, speech_template, prep_func, voting_vars,
                 output_speech,
                 field_formatter, origin_address, records, driving_times,
                 closest_dest, closest_record, formatted_record>>

\* g_maps_utils._get_driving_info: one DrivingInfo per destination, carrying
\* the destination's address (as the service echoes it), a distance value
\* and a duration text.
DrivingInfos(dests, dist, pad) ==
  [i \in 1..Len(dests) |->
     (AddressKey :> IF i \in pad THEN Padded(dests[i]) ELSE dests[i])
       @@ (DRIVING_DISTANCE_VALUE_KEY :> dist[i])
       @@ (DRIVING_TIME_TEXT_KEY :> TimeText(dist[i]))]

\* _start line 70: driving_times = self.get_driving_times_to_destinations(...)
_start_driving_times ==
  /\ pc = "L70"
  /\ \/ \E dist \in [1..Len(destinations) -> 0..MaxDist],
           pad \in SUBSET (1..Len(destinations)) :
          /\ driving_times' = DrivingInfos(destinations, dist, pad)
          /\ Goes("distances", "L71")
     \/ /\ driving_times' = driving_times
        /\ Raises("distances", "RequestException")
  /\ UNCHANGED <<session, speech_template, prep_func, voting_vars,
                 output_speech,
                 field_formatter, origin_address, records, destinations,
                 closest_dest, closest_record, formatted_record>>

\* _start line 71: closest_dest = self.get_closest_destination(driving_times)
_start_closest_dest ==
  /\ pc = "L71"
  /\ LET r == get_closest_destination(driving_times)
     IN  IF r.exc = "none"
         THEN /\ closest_dest' = r.val
              /\ Goes("select", "L72")
         ELSE /\ closest_dest' = closest_dest
              /\ Raises("select", r.exc)
  /\ UNCHANGED <<session, speech_template, prep_func, voting_vars,
                 output_speech,
                 field_formatter, origin_address, records, destinations,
                 driving_times, closest_record, formatted_record>>

\* _start lines 72-74: closest_record =
\*     self.get_closest_record_with_driving_info(closest_dest, records)
_start_closest_record ==
  /\ pc = "L72"
  /\ LET r == get_closest_record_with_driving_info(closest_dest, records)
     IN  IF r.exc = "none"
         THEN /\ closest_record' = r.val
              /\ Goes("reconcile", "L75")
         ELSE /\ closest_record' = closest_record
              /\ Raises("reconcile", r.exc)
  /\ UNCHANGED <<session, speech_template, prep_func, voting_vars,
                 output_speech,
                 field_formatter, origin_address, records, destinations,
                 driving_times, closest_dest, formatted_record>>

\* The caller's field-preparation function applied to `record`: the value it
\* returns and the state it leaves its argument in.
field_formatter_call(kind, record) ==
  CASE kind = "raises" -> [exc |-> "PrepError"]
    [] kind = "noop" -> [exc |-> "none", val |-> NoneVal, arg |-> record]
    [] record = NoneVal -> [exc |-> "TypeError"]
    [] kind = "inplace" ->
         [exc |-> "none", val |-> NoneVal, arg |-> Prepared(record)]
    [] OTHER -> [exc |-> "none", val |-> Prepared(record), arg |-> record]

\* _start line 75: formatted_record = self.field_formatter(closest_record)
_start_formatted_record ==
  /\ pc = "L75"
  /\ LET r == field_formatter_call(field_formatter, closest_record)
     IN  IF r.exc = "none"
         THEN /\ formatted_record' = r.val
              /\ closest_record' = r.arg
              /\ Goes("prepare", "L76")
         ELSE /\ formatted_record' = formatted_record
              /\ closest_record' = closest_record
              /\ Raises("prepare", r.exc)
  /\ UNCHANGED <<session, speech_template, prep_func, voting_vars,
                 output_speech,
                 field_formatter, origin_address, records, destinations,
                 driving_times, closest_dest>>

\* The mapping _start hands to set_output_speech at line 76.
RenderArgument == closest_record

\* _start line 76: self.set_output_speech(closest_record)
_start_set_output_speech ==
  /\ pc = "L76"
  /\ LET r == set_output_speech(output_speech, RenderArgument)
     IN  /\ output_speech' = r.output_speech
         /\ IF r.exc = "none"
            THEN Goes("render", "returned")
            ELSE Raises("render", r.exc)
  /\ UNCHANGED <<session, speech_template, prep_func, voting_vars,
                 field_formatter,
                 origin_address, records, destinations, driving_times,
                 closest_dest, closest_record, formatted_record>>

\* ---------------------------------------------------- get_polling_location
VotingInit ==
  /\ mycity_response = NoneVal
  /\ current_address = Unset
  /\ candidates = Unset
  /\ top_candidate = "unset"
  /\ ward_precinct = "unset"
  /\ poll_location = NoneVal
  /\ location_speech = Unset
  /\ result = NoneVal

\* MyCityResponseDataModel(): a response with nothing filled in yet.
NewResponse ==
  [output_speech |-> Unset, reprompt_text |-> "None",
   should_end_session |-> "None"]

\* What the polling-location lookup can deliver.
PollLocations ==
  { ("Location Name" :> "City Hall") @@ ("Location Address" :> "1 City Hall Sq"),
    ("Location Name" :> "City Hall") }

CandidateLists == { <<>>, <<"cand A">>, <<"cand A", "cand B">> }

\* LOCATION_SPEECH.format(a, b): positional placeholders.
FormatPositional(template, a, b) ==
  [i \in 1..Len(template) |->
     CASE template[i] = "{0}" -> a
       [] template[i] = "{1}" -> b
       [] OTHER -> template[i]]

\* lines 27-29: log the request, construct the response object.
get_polling_location_enter ==
  /\ pc = "idle"
  /\ mycity_response' = NewResponse
  /\ Goes("enter", "V31")
  /\ UNCHANGED <<session, speech_template, prep_func, finder_vars,
                 current_address, candidates, top_candidate, ward_precinct,
                 poll_location, location_speech, result>>

\* lines 31-32: current_address = session_attributes[CURRENT_ADDRESS_KEY]
get_polling_location_read_address ==
  /\ pc = "V31"
  /\ IF CURRENT_ADDRESS_KEY \in DOMAIN session
     THEN /\ current_address' = <<session[CURRENT_ADDRESS_KEY]>>
          /\ Goes("read_address", "V33")
     ELSE /\ current_address' = current_address
          /\ Raises("read_address", "KeyError")
  /\ UNCHANGED <<session, speech_template, prep_func, finder_vars,
                 mycity_response, candidates, top_candidate, ward_precinct,
                 poll_location, location_speech, result>>

\* line 33: current_address += ", Boston, MA"
get_polling_location_append_city ==
  /\ pc = "V33"
  /\ current_address' = Append(current_address, BOSTON_SUFFIX)
  /\ Goes("append_city", "V34")
  /\ UNCHANGED <<session, speech_template, prep_func, finder_vars,
                 mycity_response, candidates, top_candidate, ward_precinct,
                 poll_location, location_speech, result>>

\* line 34: candidates = arcgis_utils.geocode_address_candidates(current_address)
get_polling_location_geocode ==
  /\ pc = "V34"
  /\ \/ \E c \in CandidateLists :
          /\ candidates' = c
          /\ Goes("geocode", "V35")
     \/ /\ candidates' = candidates
        /\ Raises("geocode", "RequestException")
  /\ UNCHANGED <<session, speech_template, prep_func, finder_vars,
                 mycity_response, current_address, top_candidate,
                 ward_precinct, poll_location, location_speech, result>>

\* line 35: top_candidate = arcgis_utils.select_top_address_candidate(candidates)
get_polling_location_top_candidate ==
  /\ pc = "V35"
  /\ \/ /\ Len(candidates) > 0
        /\ top_candidate' = candidates[1]
        /\ Goes("top_candidate", "V36")
     \/ /\ Len(candidates) = 0
        /\ top_candidate' = top_candidate
        /\ Raises("top_candidate", "IndexError")
  /\ UNCHANGED <<session, speech_template, prep_func, finder_vars,
                 mycity_response, current_address, candidates, ward_precinct,
                 poll_location, location_speech, result>>

\* line 36: ward_precinct = vote_utils.get_ward_precinct_info(top_candidate)
get_polling_location_ward_precinct ==
  /\ pc = "V36"
  /\ \/ /\ ward_precinct' = "ward 1 precinct 2"
        /\ Goes("ward_precinct", "V37")
     \/ /\ ward_precinct' = ward_precinct
        /\ Raises("ward_precinct", "RequestException")
  /\ UNCHANGED <<session, speech_template, prep_func, finder_vars,
                 mycity_response, current_address, candidates, top_candidate,
                 poll_location, location_speech, result>>

\* line 37: poll_location = vote_utils.get_polling_location(ward_precinct)
get_polling_location_poll_location ==
  /\ pc = "V37"
  /\ \/ \E p \in PollLocations :
          /\ poll_location' = p
          /\ Goes("poll_location", "V38")
     \/ /\ poll_location' = poll_location
        /\ Raises("poll_location", "RequestException")
  /\ UNCHANGED <<session, speech_template, prep_func, finder_vars,
                 mycity_response, current_address, candidates, top_candidate,
                 ward_precinct, location_speech, result>>

\* lines 38-40: output_speech = LOCATION_SPEECH.format(
\*     poll_location["Location Name"], poll_location["Location Address"])
get_polling_location_format ==
  /\ pc = "V38"
  /\ IF {"Location Name", "Location Address"} \subseteq DOMAIN poll_location
     THEN /\ location_speech' =
                FormatPositional(LOCATION_SPEECH,
                                 poll_location["Location Name"],
                                 poll_location["Location Address"])
          /\ Goes("format", "V41")
     ELSE /\ location_speech' = location_speech
          /\ Raises("format", "KeyError")
  /\ UNCHANGED <<session, speech_template, prep_func, finder_vars,
                 mycity_response, current_address, candidates, top_candidate,
                 ward_precinct, poll_location, result>>

\* lines 41-45: fill the response (reprompt_text is assigned twice, last
\* with CARD_TITLE) and return it.
get_polling_location_fill_response ==
  /\ pc = "V41"
  /\ mycity_response' =
       [mycity_response EXCEPT !.output_speech = location_speech,
                               !.reprompt_text = CARD_TITLE,
                               !.should_end_session = "True"]
  /\ result' = mycity_response'
  /\ Goes("fill_response", "returned")
  /\ UNCHANGED <<session, speech_template, prep_func, finder_vars,
                 current_address, candidates, top_candidate, ward_precinct,
                 poll_location, location_speech>>

vars ==
  <<pc, exception, steps, session, speech_template, prep_func, finder_vars,
    voting_vars>>

Init ==
  /\ pc = "idle"
  /\ exception = "none"
  /\ steps = <<>>
  /\ session \in Sessions
  /\ speech_template \in Templates
  /\ prep_func \in Formatters
  /\ FinderInit
  /\ VotingInit

Next ==
  \/ __init__
  \/ start
  \/ start_override
  \/ _start_records
  \/ _start_destinations
  \/ _start_driving_times
  \/ _start_closest_dest
  \/ _start_closest_record
  \/ _start_formatted_record
  \/ _start_set_output_speech
  \/ get_polling_location_enter
  \/ get_polling_location_read_address
  \/ get_polling_location_append_city
  \/ get_polling_location_geocode
  \/ get_polling_location_top_candidate
  \/ get_polling_location_ward_precinct
  \/ get_polling_location_poll_location
  \/ get_polling_location_format
  \/ get_polling_location_fill_response

Spec == Init /\ [][Next]_vars

\* ------------------------------------------------------------- properties
Did(step) == \E i \in 1..Len(steps) : steps[i] = step

LastStep == IF Len(steps) = 0 THEN "none" ELSE steps[Len(steps)]

Dist(d) == d[DRIVING_DISTANCE_VALUE_KEY]

\* The step named last ran to completion (it did not raise).
Completed(step) == Did(step) /\ ~(pc = "raised" /\ LastStep = step)

\* The least index of dd whose distance value no element undercuts.
FirstMinIndex(dd) ==
  CHOOSE i \in 1..Len(dd) :
    /\ \A j \in 1..Len(dd) : Dist(dd[i]) <= Dist(dd[j])
    /\ \A j \in 1..(i - 1) : Dist(dd[j]) > Dist(dd[i])

\* C1: get_closest_destination returns an element of its non-empty input
\* whose distance value is at most every element's, and among several
\* elements of that minimum value the one first in input order.
C1_ClosestIsFirstMinimum ==
  Completed("select") =>
    /\ Len(driving_times) > 0
    /\ \E i \in 1..Len(driving_times) :
         /\ closest_dest = driving_times[i]
         /\ \A j \in 1..Len(driving_times) :
              Dist(closest_dest) <= Dist(driving_times[j])
         /\ \A j \in 1..(i - 1) :
              Dist(driving_times[j]) > Dist(closest_dest)

\* C1 witness: two different DrivingInfos tie for the minimum and the first
\* of them was selected.
C1_Witness ==
  /\ Completed("select")
  /\ Len(driving_times) >= 2
  /\ Dist(driving_times[1]) = Dist(driving_times[2])
  /\ driving_times[1] # driving_times[2]
  /\ closest_dest = driving_times[1]

\* The records whose address field equals driving_info's.
Matching(driving_info, records_) ==
  { i \in 1..Len(records_) :
      /\ AddressKey \in DOMAIN records_[i]
      /\ records_[i][AddressKey] = driving_info[AddressKey] }

FirstMatch(driving_info, records_) ==
  CHOOSE i \in Matching(driving_info, records_) :
    \A j \in Matching(driving_info, records_) : i <= j

\* C2: when some record's address equals closest's, the reconciled mapping is
\* built from the first such record: it has closest's address, every field of
\* that record and of closest, and closest's value wherever both have the
\* field.
C2_ReconcileMergesFirstMatch ==
  (pc = "L75" /\ Matching(closest_dest, records) # {}) =>
    LET rec == records[FirstMatch(closest_dest, records)]
    IN  /\ closest_record # NoneVal
        /\ closest_record[AddressKey] = closest_dest[AddressKey]
        /\ DOMAIN closest_record = DOMAIN rec \cup DOMAIN closest_dest
        /\ \A k \in DOMAIN closest_dest : closest_record[k] = closest_dest[k]
        /\ \A k \in DOMAIN rec \ DOMAIN closest_dest :
             closest_record[k] = rec[k]

\* C2 witness: two records share the selected address, the first of them
\* carries a field that collides with a DrivingInfo field, and the merge was
\* made from it.
C2_Witness ==
  /\ pc = "L75"
  /\ Cardinality(Matching(closest_dest, records)) = 2
  /\ DRIVING_TIME_TEXT_KEY \in DOMAIN records[FirstMatch(closest_dest, records)]
  /\ records[1]["Name"] # records[2]["Name"]
  /\ closest_record # NoneVal
  /\ closest_record["Name"] = records[1]["Name"]

\* The render step ran with a record lacking a field the template names.
RenderedWithMissingField ==
  /\ Did("render")
  /\ closest_record # NoneVal
  /\ Format(speech_template, closest_record).exc = "KeyError"

\* C3: set_output_speech called with a record lacking a placeholder's field
\* returns normally and leaves output_speech equal to ERROR_MESSAGE.
C3_MissingFieldYieldsErrorMessage ==
  RenderedWithMissingField =>
    /\ pc = "returned"
    /\ exception = "none"
    /\ output_speech = ERROR_MESSAGE

\* C4: with an empty record sequence the pipeline does not end in the
\* empty-sequence error of closest-destination selection.
C4_EmptyRecordsDoNotRaise ==
  (Completed("fetch") /\ Len(records) = 0) =>
    ~(pc = "raised" /\ LastStep = "select" /\ exception = "ValueError")

\* No record's address equals the selected DrivingInfo's.
ReconcileMissed ==
  /\ Did("reconcile")
  /\ Matching(closest_dest, records) = {}

\* C5: when no record matches the selected DrivingInfo, the reconcile step
\* itself signals an error; no None is handed on to field preparation.
C5_NoMatchIsAnError ==
  ReconcileMissed =>
    /\ pc = "raised"
    /\ LastStep = "reconcile"

Malformed(records_) ==
  \E i \in 1..Len(records_) : AddressKey \notin DOMAIN records_[i]

\* C6: get_all_destinations yields, in order, the address of every record;
\* with a record lacking the address key it raises, and then no distance
\* query is issued and nothing is rendered.
C6_DestinationsOneToOne ==
  /\ Completed("destinations") =>
       /\ Len(destinations) = Len(records)
       /\ \A i \in 1..Len(records) :
            /\ AddressKey \in DOMAIN records[i]
            /\ destinations[i] = records[i][AddressKey]
  /\ (Did("fetch") /\ Malformed(records)) =>
       /\ ~Did("distances")
       /\ ~Did("render")
       /\ output_speech = speech_template
       /\ Did("destinations") => (pc = "raised" /\ exception = "KeyError")

\* C6 witness: extraction met a record without the address key after a
\* well-formed one and raised.
C6_Witness ==
  /\ LastStep = "destinations"
  /\ pc = "raised"
  /\ Len(records) >= 2
  /\ AddressKey \in DOMAIN records[1]
  /\ AddressKey \notin DOMAIN records[2]

UniqueAddresses(records_) ==
  \A i, j \in 1..Len(records_) :
    i # j => records_[i][AddressKey] # records_[j][AddressKey]

\* The distance service answered with one DrivingInfo per destination, each
\* carrying its destination's address.
FaithfulDistances ==
  /\ Len(driving_times) = Len(destinations)
  /\ \A i \in 1..Len(destinations) :
       driving_times[i][AddressKey] = destinations[i]

\* The record of minimum driving distance merged with its DrivingInfo.
ExpectedMerged ==
  LET i == FirstMinIndex(driving_times)
  IN  [k \in DOMAIN records[i] \cup DOMAIN driving_times[i] |->
         IF k \in DOMAIN driving_times[i]
         THEN driving_times[i][k] ELSE records[i][k]]

\* _start completed on a non-empty record set with unique addresses and a
\* distance service that answered per destination.
EndToEndCase ==
  /\ pc = "returned"
  /\ Did("render")
  /\ Len(records) > 0
  /\ UniqueAddresses(records)
  /\ FaithfulDistances

\* C7 as stated: the output speech is the template rendered with the fields
\* of the minimum-distance record merged with its DrivingInfo.
C7_RendersMergedClosest ==
  (EndToEndCase /\ Format(speech_template, ExpectedMerged).exc = "none") =>
    output_speech = Format(speech_template, ExpectedMerged).val

\* The merged record as the field-preparation function left it in place.
ExpectedLeftInPlace ==
  IF field_formatter = "inplace" THEN Prepared(ExpectedMerged)
  ELSE ExpectedMerged

\* C7 amended: the output speech is the template rendered with the fields of
\* the minimum-distance record merged with its DrivingInfo, as that merged
\* record stands after the field-preparation function has been applied to it
\* (modifications made in place included).
C7_RendersMergedClosestAsPrepared ==
  (EndToEndCase /\ Format(speech_template, ExpectedLeftInPlace).exc = "none") =>
    output_speech = Format(speech_template, ExpectedLeftInPlace).val

\* C7 witness: of two records the second is the closer one, it was prepared
\* in place, and its name is in the speech.
C7_Witness ==
  /\ EndToEndCase
  /\ Len(records) = 2
  /\ Dist(driving_times[2]) < Dist(driving_times[1])
  /\ field_formatter = "inplace"
  /\ speech_template[1] = "{Name}"
  /\ output_speech[1] = PrepValue(records[2]["Name"])
  /\ output_speech[3] = "20 Main St"

\* C8: once the pipeline has run its render step, output_speech is the
\* template rendered against the closest record or the fixed error message,
\* never the raw template.
C8_OutputIsRenderedOrErrorMessage ==
  Did("render") =>
    \/ output_speech = ERROR_MESSAGE
    \/ /\ closest_record # NoneVal
       /\ Format(speech_template, closest_record) = Return(output_speech)

\* The record the field-preparation function produced: the mapping it
\* returned, or its argument when it returned nothing.
PreparedRecord ==
  IF formatted_record # NoneVal THEN formatted_record ELSE closest_record

\* C9: the values in the rendered speech are those of the prepared record.
C9_RendersPreparedRecord ==
  (pc = "returned" /\ Did("render")
     /\ Format(speech_template, PreparedRecord).exc = "none") =>
    output_speech = Format(speech_template, PreparedRecord).val

FinderOrder ==
  <<"__init__", "fetch", "augment", "destinations", "distances", "select",
    "reconcile", "prepare", "render">>

VotingOrder ==
  <<"enter", "read_address", "append_city", "geocode", "top_candidate",
    "ward_precinct", "poll_location", "format", "fill_response">>

IsPrefix(s, t) == Len(s) <= Len(t) /\ \A i \in 1..Len(s) : s[i] = t[i]

====
